---- MODULE Spec2Model ----
(***************************************************************************)
(* A model of src/main.py, the WCA competition tracker: one scheduled run  *)
(* sweeps three flat-file stores, fetches the upstream competition list,   *)
(* detects new competitions, registration windows and nearly-full          *)
(* competitions, dispatches a notification for each and records the        *)
(* successful ones in the tracking ledgers.                                *)
(*                                                                         *)
(* Time is counted in whole minutes; a date is a day number, and           *)
(* Today(t) is the day of instant t.  A value that Python holds as None is *)
(* the integer None, a date or timestamp string that strptime rejects is   *)
(* the integer Malformed.  A list is a sequence, a dict keyed by           *)
(* competition id is a function whose DOMAIN is the set of keys.           *)
(***************************************************************************)
EXTENDS Integers, Sequences, FiniteSets, TLC

\* ------------------------------------------------------------------ bounds
\* Number of runs of main() in one behaviour.
MaxRuns == 3
\* Longest list handed to a pure function (detect_*), in the function specs.
MaxLen == 2

\* ------------------------------------------------------- program constants
REGISTRATION_UPCOMING_WINDOW == 60
JUST_OPENED_WINDOW == 60
\* SPOTS_WARNING_THRESHOLD = 0.80, as a percentage
SPOTS_WARNING_THRESHOLD_PCT == 80
\* Both channels are configured (the environment variables are set).
DISCORD_WEBHOOK_URL == TRUE
TELEGRAM_CONFIGURED == TRUE

MinutesPerDay == 24 * 60
None == 0 - 1
Malformed == 0 - 2

\* ------------------------------------------------------------ input domains
Ids == {"A1", "A2"}
\* The order in which the upstream API lists the competitions.
IdOrder == <<"A1", "A2">>
\* The one registration-open instant upstream uses: day 1, 00:20.
RegOpenInstant == MinutesPerDay + 20
\* Instants at which a run can happen: day 0 far before the window, day 0
\* 23:30 (50 minutes ahead), day 1 00:10 (10 minutes ahead), day 1 00:50
\* (30 minutes after), day 2, day 3.
ClockInstants ==
    {600, RegOpenInstant - 50, RegOpenInstant - 10, RegOpenInstant + 30,
     2 * MinutesPerDay + 20, 3 * MinutesPerDay + 20}
\* Upstream competitions start on day 1 or day 2 and all end on day 2.
StartDays == {1, 2}
LastDay == 1 + 1
RegValues == {None, RegOpenInstant}
LimitValues == {None, 5}
\* What the live-count lookup can return: a count, or None on failure.
LiveValues == {None, 3, 4}
Channels == {"discord", "telegram"}
Kinds == {"upcoming", "open", "spots"}

Today(t) == t \div MinutesPerDay

\* A competition record as the API returns it (the fields the core reads).
Entity(id, s, e, r, l) ==
    [id |-> id, start_date |-> s, end_date |-> e, registration_open |-> r,
     competitor_limit |-> l]

\* Scope "dates": the records the API can return for `id` when a date field
\* can be bad: the start date or the end date does not parse (a missing field
\* raises at the same places); every record has the registration-open instant.
DatesEntities(id, today) ==
    {Entity(id, s, LastDay, RegOpenInstant, None) :
        s \in {d \in StartDays : d >= today} \cup {Malformed}}
    \cup {Entity(id, LastDay, Malformed, RegOpenInstant, None) :
            d \in {x \in {LastDay} : x >= today}}

\* Scope "moved": one-day competitions that upstream can move to another
\* day between two fetches: start date = end date = day 1, 2 or 3.
MovedEntities(id, today) ==
    {Entity(id, s, s, None, None) : s \in {d \in 1..3 : d >= today}}

\* Scope "limits": every competition declares a competitor limit, and
\* upstream can declare another one at the next fetch.
LimitsEntities(id, today) ==
    {Entity(id, s, LastDay, None, l) :
        s \in {d \in StartDays : d >= today}, l \in {4, 5}}

\* The records the API can return for `id` on day `today`: the query asks for
\* start >= today.  A behaviour either
\* exercises the registration windows (scope "registration": upstream
\* declares no competitor limit) or the capacity alert (scope "capacity":
\* upstream declares no registration-open instant).
FetchEntities(id, today, sc) ==
    IF sc = "dates" THEN DatesEntities(id, today)
    ELSE IF sc = "moved" THEN MovedEntities(id, today)
    ELSE IF sc = "limits" THEN LimitsEntities(id, today)
    ELSE {Entity(id, s, LastDay, r, l) :
            s \in {d \in StartDays : d >= today},
            r \in IF sc = "registration" THEN RegValues ELSE {None},
            l \in IF sc = "capacity" THEN LimitValues ELSE {None}}

Range(s) == {s[i] : i \in DOMAIN s}
\* {comp["id"] for comp in comps}
IdsOf(comps) == {comps[i].id : i \in DOMAIN comps}

\* The lists the API can return on day `today`: any subset of the ids, each
\* id once, in the API's order; the empty list is also what get_competitions
\* returns when the request fails.
FetchLists(today, sc) ==
    UNION {
      LET order == SelectSeq(IdOrder, LAMBDA i : i \in S)
      IN  {[k \in 1..Len(order) |-> f[order[k]]] :
             f \in {g \in [S -> UNION {FetchEntities(i, today, sc) : i \in S}] :
                      \A i \in S : g[i].id = i}}
      : S \in SUBSET Ids}

\* ------------------------------------------------------------ dict helpers
\* d.get(key, {}).get(field, False) on a ledger
Flag(d, key, field) == IF key \in DOMAIN d THEN d[key][field] ELSE FALSE
\* d[key] = v
Put(d, key, v) == [k \in DOMAIN d \cup {key} |-> IF k = key THEN v ELSE d[k]]
\* {k: v for k, v in d.items() if k in keys}
Restrict(d, keys) == [k \in DOMAIN d \cap keys |-> d[k]]
EmptyDict == [k \in {} |-> FALSE]

\* "not value" for an optional field: None and 0 are falsy.
Falsy(v) == v = None \/ v = 0

\* ------------------------------------------------------ the pure functions
\* detect_new_competitions comparing whole records instead of ids
detect_new_by_record(current_comps, previous_comps) ==
    SelectSeq(current_comps, LAMBDA comp : comp \notin Range(previous_comps))

\* detect_new_competitions
detect_new_competitions(current_comps, previous_comps) ==
    LET previous_ids == IdsOf(previous_comps)
    IN  SelectSeq(current_comps, LAMBDA comp : comp.id \notin previous_ids)

\* clean_old_competitions dropping the competitions that end today as well
clean_old_competitions_strict(comps, today) ==
    SelectSeq(comps, LAMBDA comp : comp.end_date > today)

\* clean_old_competitions: the list the store holds after it
clean_old_competitions(comps, today) ==
    SelectSeq(comps, LAMBDA comp : comp.end_date >= today)

\* future_comp_ids counting the competitions that start today as future
future_comp_ids_inclusive(comps, today) ==
    {comps[i].id : i \in {j \in DOMAIN comps : comps[j].start_date >= today}}

\* future_comp_ids of clean_old_registration_tracking / clean_old_spots_tracking
future_comp_ids(comps, today) ==
    {comps[i].id : i \in {j \in DOMAIN comps : comps[j].start_date > today}}

\* clean_old_registration_tracking: the ledger the file holds after it
clean_old_registration_tracking(tracking, comps, today) ==
    Restrict(tracking, future_comp_ids(comps, today))

\* clean_old_spots_tracking: the ledger the file holds after it
clean_old_spots_tracking(tracking, comps, today) ==
    Restrict(tracking, future_comp_ids(comps, today))

\* clean_old_competitions parses comp["end_date"] of every stored record in
\* its list comprehension (lines 139-143): one bad end date raises.
end_date_raises(comps) ==
    \E i \in DOMAIN comps : comps[i].end_date \in {None, Malformed}

\* clean_old_registration_tracking and clean_old_spots_tracking parse
\* comp["start_date"] of every stored record (lines 250-254, 478-482): one bad
\* start date raises.
future_comp_ids_raises(comps) ==
    \E i \in DOMAIN comps : comps[i].start_date \in {None, Malformed}

\* detect_limited_spots parses comp["start_date"] outside any try block (line
\* 524) for a competition that is not flagged as notified.
spots_start_date_raises(comp, tracking) ==
    /\ ~Flag(tracking, comp.id, "notified")
    /\ comp.start_date \in {None, Malformed}

\* format_competition_info parses comp["start_date"] and comp["end_date"]
\* outside any try block (lines 754-760); every send_* function calls it
\* before it posts anything.
format_raises(comp) ==
    \/ comp.start_date \in {None, Malformed}
    \/ comp.end_date \in {None, Malformed}

\* send_discord_notification / send_telegram_notification on the new
\* competitions: a configured channel sorts the list by parsed start date
\* (line 841) and formats every competition (lines 678, 728) before posting.
new_send_raises(new_comps) ==
    /\ DISCORD_WEBHOOK_URL \/ TELEGRAM_CONFIGURED
    /\ \E i \in DOMAIN new_comps : format_raises(new_comps[i])

\* Both window functions parse comp["start_date"] outside their try block
\* (lines 299 and 351): for a competition whose flag of that kind is not set,
\* a start date that is missing, null or unparsable raises (KeyError,
\* TypeError, ValueError) and the exception leaves the function.
start_date_raises(comp, tracking, field) ==
    /\ ~Flag(tracking, comp.id, field)
    /\ comp.start_date \in {None, Malformed}

\* The call of a window function on this list raises.
window_raises(competitions, tracking, field) ==
    \E i \in DOMAIN competitions :
      start_date_raises(competitions[i], tracking, field)

\* The opening-soon test without its lower bound: an instant that has passed
\* still counts as opening soon
opening_soon_test_any_past(comp, tracking, t) ==
    /\ ~Flag(tracking, comp.id, "notified_upcoming")
    /\ ~(comp.start_date <= Today(t))
    /\ ~Falsy(comp.registration_open)
    /\ comp.registration_open # Malformed
    /\ LET time_until_open == comp.registration_open - t
       IN  time_until_open <= REGISTRATION_UPCOMING_WINDOW

opening_soon_test_exclusive(comp, tracking, t) ==
    /\ ~Flag(tracking, comp.id, "notified_upcoming")
    /\ ~(comp.start_date <= Today(t))
    /\ ~Falsy(comp.registration_open)
    /\ comp.registration_open # Malformed
    /\ LET time_until_open == comp.registration_open - t
       IN  0 < time_until_open /\ time_until_open < REGISTRATION_UPCOMING_WINDOW

\* The test detect_registration_opening_soon applies to one competition.
opening_soon_test(comp, tracking, t) ==
    /\ ~Flag(tracking, comp.id, "notified_upcoming")
    /\ ~(comp.start_date <= Today(t))
    /\ ~Falsy(comp.registration_open)
    /\ comp.registration_open # Malformed
    /\ LET time_until_open == comp.registration_open - t
       IN  0 < time_until_open /\ time_until_open <= REGISTRATION_UPCOMING_WINDOW

detect_registration_opening_soon(competitions, tracking, t) ==
    SelectSeq(competitions, LAMBDA comp : opening_soon_test(comp, tracking, t))

\* The just-opened test with the opening instant itself left out
just_opened_test_exclusive(comp, tracking, t) ==
    /\ ~Flag(tracking, comp.id, "notified_open")
    /\ ~(comp.start_date <= Today(t))
    /\ ~Falsy(comp.registration_open)
    /\ comp.registration_open # Malformed
    /\ LET time_since_open == t - comp.registration_open
       IN  0 < time_since_open /\ time_since_open <= JUST_OPENED_WINDOW

\* The test detect_registration_just_opened applies to one competition.
just_opened_test(comp, tracking, t) ==
    /\ ~Flag(tracking, comp.id, "notified_open")
    /\ ~(comp.start_date <= Today(t))
    /\ ~Falsy(comp.registration_open)
    /\ comp.registration_open # Malformed
    /\ LET time_since_open == t - comp.registration_open
       IN  0 <= time_since_open /\ time_since_open <= JUST_OPENED_WINDOW

detect_registration_just_opened(competitions, tracking, t) ==
    SelectSeq(competitions, LAMBDA comp : just_opened_test(comp, tracking, t))

\* The lookup test without the notified test of lines 518-520
spots_lookup_made_flagged(comp, tracking, today) ==
    /\ ~(comp.start_date <= today)
    /\ ~Falsy(comp.competitor_limit)

\* detect_limited_spots looks the live count of this competition up.
spots_lookup_made(comp, tracking, today) ==
    /\ ~Flag(tracking, comp.id, "notified")
    /\ ~(comp.start_date <= today)
    /\ ~Falsy(comp.competitor_limit)

\* The threshold test with the threshold itself left out
over_threshold_strict(current_count, competitor_limit) ==
    100 * current_count > SPOTS_WARNING_THRESHOLD_PCT * competitor_limit

\* percentage_filled >= SPOTS_WARNING_THRESHOLD, in integers
over_threshold(current_count, competitor_limit) ==
    100 * current_count >= SPOTS_WARNING_THRESHOLD_PCT * competitor_limit

\* detect_limited_spots refreshing the entry without testing the lookup result
spots_refreshed_unchecked(comp, tracking, counts, today) ==
    /\ spots_lookup_made(comp, tracking, today)
    /\ comp.id \in DOMAIN counts

\* detect_limited_spots refreshes this competition's entry (lookup succeeded).
spots_refreshed(comp, tracking, counts, today) ==
    /\ spots_lookup_made(comp, tracking, today)
    /\ comp.id \in DOMAIN counts
    /\ counts[comp.id] # None

\* detect_limited_spots refreshing an entry only when the threshold is reached
spots_tracking_after_alert_only(competitions, tracking, counts, today) ==
    LET hit == {i \in DOMAIN competitions :
                  /\ spots_refreshed(competitions[i], tracking, counts, today)
                  /\ over_threshold(counts[competitions[i].id],
                                    competitions[i].competitor_limit)}
        comp_of(id) == competitions[CHOOSE i \in hit : competitions[i].id = id]
    IN  [id \in DOMAIN tracking \cup {competitions[i].id : i \in hit} |->
           IF \E i \in hit : competitions[i].id = id
           THEN [notified |-> FALSE,
                 last_count |-> counts[id],
                 limit |-> comp_of(id).competitor_limit]
           ELSE tracking[id]]

\* current_count / competitor_limit (line 541) raises for this competition:
\* the division is reached with a limit of 0 (ZeroDivisionError) or None
\* (TypeError).
division_raises(comp, tracking, counts, today) ==
    /\ spots_refreshed(comp, tracking, counts, today)
    /\ Falsy(comp.competitor_limit)

\* The tracking dict as detect_limited_spots leaves it; the notified key of a
\* refreshed entry is absent or false, which FALSE stands for.
spots_tracking_after(competitions, tracking, counts, today) ==
    LET hit == {i \in DOMAIN competitions :
                  spots_refreshed(competitions[i], tracking, counts, today)}
        comp_of(id) == competitions[CHOOSE i \in hit : competitions[i].id = id]
    IN  [id \in DOMAIN tracking \cup {competitions[i].id : i \in hit} |->
           IF \E i \in hit : competitions[i].id = id
           THEN [notified |-> FALSE,
                 last_count |-> counts[id],
                 limit |-> comp_of(id).competitor_limit]
           ELSE tracking[id]]

\* The almost_full list detect_limited_spots returns.
detect_limited_spots(competitions, tracking, counts, today) ==
    LET full(comp) ==
            /\ spots_refreshed(comp, tracking, counts, today)
            /\ over_threshold(counts[comp.id], comp.competitor_limit)
        picked == SelectSeq(competitions, full)
    IN  [k \in 1..Len(picked) |->
           [id |-> picked[k].id, start_date |-> picked[k].start_date,
            end_date |-> picked[k].end_date,
            registration_open |-> picked[k].registration_open,
            competitor_limit |-> picked[k].competitor_limit,
            current_count |-> counts[picked[k].id]]]

\* -------------------------------------------------------------- the state
VARIABLES
    now,             \* the wall clock, in minutes
    prev_comps,      \* prev_comps.json: the persisted snapshot list
    reg_file,        \* registration_tracking.json
    spots_file,      \* spots_tracking.json
    pc,              \* where main() is: "idle" between two runs
    current_comps,   \* main's current_comps
    tracking,        \* main's tracking (registration ledger in memory)
    spots_tracking,  \* main's spots_tracking
    queue,           \* the detected list main is iterating over
    looked_up,       \* what the live-count lookups of this run returned
    runs,            \* runs of main() completed
    scope,           \* what upstream exercises in this behaviour
    track,           \* which history the behaviour records
    okCount,         \* history: successful dispatches per <<kind, id>>
    received,        \* history: channels that got the event, per <<kind, id>>
    failed,          \* history: events whose latest dispatch returned False
    idem,            \* history: the previous run's inputs and this run's effects
    args,            \* function specifications: the arguments of the call
    result,          \* function specifications: what the call returned
    other            \* a second, overlapping process running main()

stores == <<prev_comps, reg_file, spots_file>>
locals == <<current_comps, tracking, spots_tracking, queue, looked_up>>
setup == <<scope, track, args, result, other>>
history == <<okCount, received, failed, idem>>
vars == <<now, stores, pc, locals, runs, setup, history>>

Scopes == {"registration", "capacity"}
Events == Kinds \X Ids
\* okCount saturates here: "twice or more".
MaxCount == 2
\* Runs of main() by the second process in one behaviour.
MaxOverlaps == 1
Bump(n) == IF n < MaxCount THEN n + 1 ELSE n

\* The second process is not running.
OtherIdle(n) ==
    [pc |-> "idle", comps |-> <<>>, tracking |-> EmptyDict, queue |-> <<>>,
     runs |-> n]

\* No previous run yet.
IdemNone ==
    [has |-> FALSE, fetch |-> <<>>, counts |-> EmptyDict, at |-> 0,
     clean |-> TRUE, prevClean |-> TRUE, start |-> <<>>, same |-> FALSE,
     sent |-> FALSE, failed |-> FALSE,
     swept |-> <<>>, emptied |-> FALSE,
     reported |-> {}, newFailed |-> {}, prevNewFailed |-> {},
     delivered |-> {}, prevDelivered |-> {}, inflight |-> {},
     killed |-> FALSE, again |-> {}, raised |-> FALSE, lost |-> {},
     newTimes |-> [id \in Ids |-> 0], seen |-> {}, dropped |-> {}]

\* What a run differing from the previous one did is not kept.
IdemNorm(r) ==
    IF r.same THEN r ELSE [r EXCEPT !.start = <<>>, !.sent = FALSE]

InitTracking(tr) ==
    /\ now \in ClockInstants
    /\ prev_comps = <<>>
    /\ reg_file = EmptyDict
    /\ spots_file = EmptyDict
    /\ pc = "idle"
    /\ current_comps = <<>>
    /\ tracking = EmptyDict
    /\ spots_tracking = EmptyDict
    /\ queue = <<>>
    /\ looked_up = EmptyDict
    /\ runs = 0
    /\ scope \in Scopes
    /\ track = tr
    /\ other = OtherIdle(0)
    /\ okCount = [ev \in Events |-> 0]
    /\ received = [ev \in Events |-> {}]
    /\ failed = {}
    /\ idem = IdemNone
    /\ args = <<>>
    /\ result = <<>>

Init == InitTracking("ok")

\* A send that reports success as soon as a channel was attempted
send_result_attempted(d, t) ==
    DISCORD_WEBHOOK_URL \/ TELEGRAM_CONFIGURED

\* The result of a send_*_notification call whose Discord request succeeded
\* iff `d` and whose Telegram request succeeded iff `t`.
send_result(d, t) ==
    LET discord_success == DISCORD_WEBHOOK_URL /\ d
        telegram_success == TELEGRAM_CONFIGURED /\ t
    IN  discord_success \/ telegram_success

\* The channels that received the message of that call.
send_channels(d, t) ==
    {c \in Channels : \/ c = "discord" /\ DISCORD_WEBHOOK_URL /\ d
                      \/ c = "telegram" /\ TELEGRAM_CONFIGURED /\ t}

\* main marking a registration flag by writing a fresh entry for the id
mark_registration_fresh(trk, id, field) ==
    Put(trk, id, [[notified_upcoming |-> FALSE, notified_open |-> FALSE]
                    EXCEPT ![field] = TRUE])

\* main marks a registration flag: the entry is created with both flags false
\* when absent, then the one flag is set.
mark_registration(trk, id, field) ==
    LET entry == IF id \in DOMAIN trk THEN trk[id]
                 ELSE [notified_upcoming |-> FALSE, notified_open |-> FALSE]
    IN  Put(trk, id, [entry EXCEPT ![field] = TRUE])

\* main marks the spots flag of an entry detect_limited_spots refreshed.
mark_spots(trk, id) ==
    Put(trk, id, [trk[id] EXCEPT !.notified = TRUE])

\* save_registration_tracking merging the ledger into what the file holds
save_registration_merging(file, tracking_data) ==
    [k \in DOMAIN file \cup DOMAIN tracking_data |->
       IF k \notin DOMAIN tracking_data THEN file[k]
       ELSE IF k \notin DOMAIN file THEN tracking_data[k]
       ELSE [notified_upcoming |-> file[k].notified_upcoming
                                   \/ tracking_data[k].notified_upcoming,
             notified_open |-> file[k].notified_open
                               \/ tracking_data[k].notified_open]]

\* save_registration_tracking: the file after the call; the whole file is
\* replaced by the dict of the caller.
save_registration_tracking(file, tracking_data) ==
    tracking_data

\* main marking the registration flag without reading the send's result
registration_marked_always(trk, id, field, ok) ==
    mark_registration(trk, id, field)

\* main, lines 1211-1215 and 1227-1231: the registration ledger in memory
\* after a send that returned `ok`.
registration_after_send(trk, id, field, ok) ==
    IF ok THEN mark_registration(trk, id, field) ELSE trk

\* main marking the spots flag without reading the send's result
spots_marked_always(trk, id, ok) ==
    mark_spots(trk, id)

\* main, lines 1247-1251: the spots ledger in memory after a send that
\* returned `ok`.
spots_after_send(trk, id, ok) ==
    IF ok THEN mark_spots(trk, id) ELSE trk

\* main, lines 1193-1194: some channel delivered the new-competition
\* notification (send_discord_notification, send_telegram_notification); main
\* does not read the two results.
send_new_result(d, t) ==
    (DISCORD_WEBHOOK_URL /\ d) \/ (TELEGRAM_CONFIGURED /\ t)

\* The snapshot never saved by the new-competition step
snapshot_kept(previous_comps, fetched, new_comps, sent) ==
    previous_comps

\* The snapshot saved only when the new-competition notification got through
snapshot_saved_on_success(previous_comps, fetched, new_comps, sent) ==
    IF new_comps # <<>> /\ sent THEN fetched ELSE previous_comps

\* The snapshot written on every run, changed ids or not
snapshot_saved_always(previous_comps, fetched, new_comps, sent) ==
    fetched

\* main, lines 1191-1196, with save_competitions: prev_comps.json after the
\* new-competition step; `sent` is what the two sends achieved.
snapshot_after_new(previous_comps, fetched, new_comps, sent) ==
    IF new_comps # <<>> /\ IdsOf(previous_comps) # IdsOf(fetched)
    THEN fetched ELSE previous_comps

\* History of one dispatch of event `ev` with channel outcomes d, t.
Observe(ev, d, t) ==
    /\ failed' = IF track = "retry"
                 THEN IF send_result(d, t) THEN failed \ {ev}
                      ELSE failed \cup {ev}
                 ELSE failed
    /\ okCount' = IF track = "ok" /\ send_result(d, t)
                  THEN [okCount EXCEPT ![ev] = Bump(@)] ELSE okCount
    /\ received' = IF track = "channels"
                   THEN [received EXCEPT ![ev] = @ \cup send_channels(d, t)]
                   ELSE received
    /\ idem' = IF track = "idem"
               THEN IdemNorm([idem EXCEPT !.sent = TRUE,
                                          !.failed = @ \/ ~send_result(d, t)])
               ELSE IF track = "kill"
               THEN [idem EXCEPT
                       !.delivered = IF send_result(d, t) THEN @ \cup {ev}
                                     ELSE @,
                       !.again = IF ev \in idem.prevDelivered THEN @ \cup {ev}
                                 ELSE @]
               ELSE IF track = "race"
               THEN [idem EXCEPT
                       !.delivered = IF send_result(d, t) THEN @ \cup {ev}
                                     ELSE @]
               ELSE idem

\* The clock moves between two runs.
Tick ==
    /\ pc = "idle"
    /\ runs < MaxRuns
    /\ \E t \in ClockInstants : t > now /\ now' = t
    /\ UNCHANGED <<stores, pc, locals, runs, setup, history>>

\* The clock moves while main is running, between two of its calls of
\* datetime.now(): after the sweep, or after a dispatch loop.
TickInRun ==
    /\ pc \in {"fetch", "upcoming", "open"}
    /\ queue = <<>>
    /\ \E t \in ClockInstants : t > now /\ now' = t
    /\ UNCHANGED <<stores, pc, locals, runs, setup, history>>

\* main, lines 1157-1170: the three stores are swept.
Sweep ==
    /\ pc = "idle"
    /\ runs < MaxRuns
    /\ LET today == Today(now)
           kept == clean_old_competitions(prev_comps, today)
       IN  /\ ~end_date_raises(prev_comps)
           /\ ~future_comp_ids_raises(kept)
           /\ prev_comps' = kept
           /\ reg_file' = clean_old_registration_tracking(reg_file, kept, today)
           /\ spots_file' = clean_old_spots_tracking(spots_file, kept, today)
    /\ pc' = "fetch"
    /\ idem' = IF track = "idem"
               THEN IdemNorm([idem EXCEPT !.same = idem.has /\ idem.at = now,
                                          !.start = stores,
                                          !.sent = FALSE,
                                          !.failed = FALSE,
                                          !.prevClean = idem.clean])
               ELSE IF track = "frame"
               THEN [idem EXCEPT !.start = stores,
                                 !.swept = <<prev_comps', reg_file', spots_file'>>,
                                 !.emptied = FALSE]
               ELSE IF track = "base" /\ ~idem.emptied
               THEN [idem EXCEPT !.start = stores]
               ELSE IF track = "race"
               THEN [idem EXCEPT !.delivered = {}]
               ELSE idem
    /\ UNCHANGED <<now, locals, runs, setup, okCount, received, failed>>

\* History of a run that ends on an empty fetch.
ObserveEmpty ==
    idem' = IF track = "idem"
           THEN IdemNorm([idem EXCEPT !.same = @ /\ idem.fetch = <<>>,
                                      !.has = TRUE,
                                      !.fetch = <<>>,
                                      !.counts = EmptyDict,
                                      !.at = now,
                                      !.clean = TRUE])
           ELSE IF track \in {"frame", "base"}
           THEN [idem EXCEPT !.emptied = TRUE]
           ELSE IF track \in {"new", "kill"}
           THEN IdemNone
           ELSE IF track = "moved"
           THEN [idem EXCEPT !.dropped = @ \cup idem.seen]
           ELSE idem

\* main going on after an empty fetch with the stored snapshot as its list
FetchEmptyContinuing ==
    /\ pc = "fetch"
    /\ pc' = "upcoming"
    /\ current_comps' = prev_comps
    /\ tracking' = reg_file
    /\ queue' = detect_registration_opening_soon(prev_comps, reg_file, now)
    /\ ObserveEmpty
    /\ UNCHANGED <<now, stores, spots_tracking, looked_up, runs, setup, okCount,
                   received, failed>>

\* main returning on an empty fetch only after saving it as the snapshot
FetchEmptySaving ==
    /\ pc = "fetch"
    /\ pc' = "idle"
    /\ runs' = runs + 1
    /\ prev_comps' = <<>>
    /\ ObserveEmpty
    /\ UNCHANGED <<now, reg_file, spots_file, locals, setup, okCount, received,
                   failed>>

\* main, lines 1172-1178: the fetch is empty or failed, main returns.
FetchEmpty ==
    /\ pc = "fetch"
    /\ pc' = "idle"
    /\ runs' = runs + 1
    /\ ObserveEmpty
    /\ UNCHANGED <<now, stores, locals, setup, okCount, received, failed>>

\* main, lines 1172-1205: a non-empty fetch; new competitions are detected
\* and notified (the result of the two sends is not read), the snapshot is
\* saved when there are new ones, the registration ledger is loaded and the
\* opening-soon list is detected.
Fetch ==
    /\ pc = "fetch"
    /\ \E fetched \in FetchLists(Today(now), scope), d \in BOOLEAN, t \in BOOLEAN :
         LET new_comps == detect_new_competitions(fetched, prev_comps)
             sent == send_new_result(d, t)
         IN  /\ fetched # <<>>
             /\ ~new_send_raises(new_comps)
             /\ ~window_raises(fetched, reg_file, "notified_upcoming")
             /\ current_comps' = fetched
             /\ prev_comps' = snapshot_after_new(prev_comps, fetched, new_comps,
                                                 sent)
             /\ tracking' = reg_file
             /\ queue' = detect_registration_opening_soon(fetched, reg_file, now)
             /\ idem' = IF track = "idem"
                        THEN IdemNorm([idem EXCEPT
                                         !.same = @ /\ idem.fetch = fetched,
                                         !.fetch = fetched,
                                         !.sent = new_comps # <<>>])
                        ELSE IF track = "new"
                        THEN [idem EXCEPT
                                !.same = idem.fetch = fetched,
                                !.fetch = fetched,
                                !.reported = IdsOf(new_comps),
                                !.prevNewFailed = idem.newFailed,
                                !.newFailed = IF sent THEN {}
                                              ELSE IdsOf(new_comps)]
                        ELSE IF track = "base"
                        THEN [idem EXCEPT !.reported = IdsOf(new_comps)]
                        ELSE IF track = "moved"
                        THEN [idem EXCEPT
                                !.newTimes =
                                  [id \in Ids |->
                                     IF id \in IdsOf(new_comps)
                                     THEN Bump(idem.newTimes[id])
                                     ELSE idem.newTimes[id]],
                                !.seen = @ \cup IdsOf(fetched),
                                !.dropped = @ \cup (idem.seen \ IdsOf(fetched))]
                        ELSE idem
    /\ pc' = "upcoming"
    /\ UNCHANGED <<now, reg_file, spots_file, spots_tracking, looked_up, runs,
                   setup, okCount, received, failed>>

\* main, lines 1210-1216: one competition of upcoming_reg is dispatched; on
\* success its flag is set and the ledger is saved.
DispatchUpcoming ==
    /\ pc = "upcoming"
    /\ queue # <<>>
    /\ ~format_raises(Head(queue))
    /\ \E d \in BOOLEAN, t \in BOOLEAN :
         LET comp == Head(queue)
             ok == send_result(d, t)
         IN  /\ Observe(<<"upcoming", comp.id>>, d, t)
             /\ tracking' = registration_after_send(tracking, comp.id,
                                                    "notified_upcoming", ok)
             /\ reg_file' = IF ok
                            THEN save_registration_tracking(reg_file, tracking')
                            ELSE reg_file
    /\ queue' = Tail(queue)
    /\ UNCHANGED <<now, prev_comps, spots_file, pc, current_comps,
                   spots_tracking, looked_up, runs, setup>>

\* main, line 1221: the just-opened list is detected.
DetectJustOpened ==
    /\ pc = "upcoming"
    /\ queue = <<>>
    /\ ~window_raises(current_comps, tracking, "notified_open")
    /\ queue' = detect_registration_just_opened(current_comps, tracking, now)
    /\ pc' = "open"
    /\ UNCHANGED <<now, stores, current_comps, tracking, spots_tracking,
                   looked_up, runs, setup, history>>

\* main, lines 1226-1232: one competition of just_opened_reg is dispatched.
DispatchOpen ==
    /\ pc = "open"
    /\ queue # <<>>
    /\ ~format_raises(Head(queue))
    /\ \E d \in BOOLEAN, t \in BOOLEAN :
         LET comp == Head(queue)
             ok == send_result(d, t)
         IN  /\ Observe(<<"open", comp.id>>, d, t)
             /\ tracking' = registration_after_send(tracking, comp.id,
                                                    "notified_open", ok)
             /\ reg_file' = IF ok
                            THEN save_registration_tracking(reg_file, tracking')
                            ELSE reg_file
    /\ queue' = Tail(queue)
    /\ UNCHANGED <<now, prev_comps, spots_file, pc, current_comps,
                   spots_tracking, looked_up, runs, setup>>

\* The ids whose live count detect_limited_spots looks up.
spots_asked(competitions, trk, today) ==
    {competitions[i].id :
       i \in {j \in DOMAIN competitions :
                spots_lookup_made(competitions[j], trk, today)}}

\* main, lines 1238-1241: the spots ledger is loaded and detect_limited_spots
\* looks the live counts up; `counts` is what the lookups return.
DetectSpots ==
    /\ pc = "open"
    /\ queue = <<>>
    /\ \A i \in DOMAIN current_comps :
         ~spots_start_date_raises(current_comps[i], spots_file)
    /\ LET today == Today(now)
       IN  \E counts \in [spots_asked(current_comps, spots_file, today)
                            -> LiveValues] :
             /\ looked_up' = counts
             /\ spots_tracking' =
                    spots_tracking_after(current_comps, spots_file, counts, today)
             /\ queue' =
                    detect_limited_spots(current_comps, spots_file, counts, today)
             /\ idem' = IF track = "idem"
                        THEN IdemNorm([idem EXCEPT
                               !.same = @ /\ \A id \in DOMAIN counts
                                                    \cap DOMAIN idem.counts :
                                               counts[id] = idem.counts[id],
                               !.counts = counts])
                        ELSE idem
    /\ pc' = "spots"
    /\ UNCHANGED <<now, stores, current_comps, tracking, runs, setup, okCount,
                   received, failed>>

\* main, lines 1246-1252: one competition of limited_spots is dispatched.
DispatchSpots ==
    /\ pc = "spots"
    /\ queue # <<>>
    /\ ~format_raises(Head(queue))
    /\ \E d \in BOOLEAN, t \in BOOLEAN :
         LET comp == Head(queue)
             ok == send_result(d, t)
         IN  /\ Observe(<<"spots", comp.id>>, d, t)
             /\ spots_tracking' = spots_after_send(spots_tracking, comp.id, ok)
             /\ spots_file' = IF ok THEN spots_tracking' ELSE spots_file
    /\ queue' = Tail(queue)
    /\ UNCHANGED <<now, prev_comps, reg_file, pc, current_comps, tracking,
                   looked_up, runs, setup>>

\* main, lines 1256-1259: the spots ledger is saved and the run ends.
FinishRun ==
    /\ pc = "spots"
    /\ queue = <<>>
    /\ spots_file' = spots_tracking
    /\ pc' = "idle"
    /\ runs' = runs + 1
    /\ current_comps' = <<>>
    /\ tracking' = EmptyDict
    /\ spots_tracking' = EmptyDict
    /\ looked_up' = EmptyDict
    /\ idem' = IF track = "idem"
               THEN [idem EXCEPT !.has = TRUE, !.at = now,
                                 !.clean = ~idem.failed]
               ELSE IF track \in {"frame", "base"}
               THEN IdemNone
               ELSE IF track = "new"
               THEN [idem EXCEPT !.same = FALSE, !.reported = {},
                                 !.prevNewFailed = {}]
               ELSE IF track = "kill"
               THEN [IdemNone EXCEPT !.prevDelivered = idem.delivered]
               ELSE idem
    /\ UNCHANGED <<now, prev_comps, reg_file, queue, setup, okCount, received,
                   failed>>

Next ==
    \/ Tick
    \/ Sweep
    \/ FetchEmpty
    \/ Fetch
    \/ DispatchUpcoming
    \/ DetectJustOpened
    \/ DispatchOpen
    \/ DetectSpots
    \/ DispatchSpots
    \/ FinishRun

\* __main__, lines 1262-1265: an exception leaves main and is logged; the run
\* is over, what is in memory is lost.
Abort ==
    /\ pc' = "idle"
    /\ runs' = runs + 1
    /\ current_comps' = <<>>
    /\ tracking' = EmptyDict
    /\ spots_tracking' = EmptyDict
    /\ queue' = <<>>
    /\ looked_up' = EmptyDict
    /\ idem' = [idem EXCEPT !.raised = TRUE]
    /\ UNCHANGED <<now, setup, okCount, received, failed>>

\* main, lines 1163-1170: a sweep raises on a stored record with a bad date;
\* clean_old_competitions has written the store when it is the ledger sweep
\* that raises.
SweepRaises ==
    /\ pc = "idle"
    /\ runs < MaxRuns
    /\ LET kept == clean_old_competitions(prev_comps, Today(now))
       IN  \/ /\ end_date_raises(prev_comps)
              /\ UNCHANGED prev_comps
           \/ /\ ~end_date_raises(prev_comps)
              /\ future_comp_ids_raises(kept)
              /\ prev_comps' = kept
    /\ Abort
    /\ UNCHANGED <<reg_file, spots_file>>

\* main, lines 1172-1205: the send of the new competitions raises on a new
\* record with a bad date, before anything is posted or saved; or the new
\* competitions are notified and the snapshot is saved, and then
\* detect_registration_opening_soon raises on a fetched record with a bad
\* start date.
FetchRaises ==
    /\ pc = "fetch"
    /\ \E fetched \in FetchLists(Today(now), scope), d \in BOOLEAN, t \in BOOLEAN :
         LET new_comps == detect_new_competitions(fetched, prev_comps)
         IN  /\ fetched # <<>>
             /\ \/ /\ new_send_raises(new_comps)
                   /\ UNCHANGED prev_comps
                \/ /\ ~new_send_raises(new_comps)
                   /\ window_raises(fetched, reg_file, "notified_upcoming")
                   /\ prev_comps' = snapshot_after_new(prev_comps, fetched,
                                                       new_comps,
                                                       send_new_result(d, t))
    /\ Abort
    /\ UNCHANGED <<reg_file, spots_file>>

\* main, line 1221: detect_registration_just_opened raises.
DetectJustOpenedRaises ==
    /\ pc = "upcoming"
    /\ queue = <<>>
    /\ window_raises(current_comps, tracking, "notified_open")
    /\ Abort
    /\ UNCHANGED stores

\* main, lines 1211, 1227, 1247: the send_* function of a detected
\* competition raises in format_competition_info, before it posts anything.
DispatchRaises ==
    /\ pc \in {"upcoming", "open", "spots"}
    /\ queue # <<>>
    /\ format_raises(Head(queue))
    /\ Abort
    /\ UNCHANGED stores

\* main, lines 1238-1241: detect_limited_spots raises; what it had refreshed
\* in memory is never saved.
DetectSpotsRaises ==
    /\ pc = "open"
    /\ queue = <<>>
    /\ \E i \in DOMAIN current_comps :
         spots_start_date_raises(current_comps[i], spots_file)
    /\ Abort
    /\ UNCHANGED stores

\* main, lines 1157-1205, run by a second process while the first is between
\* its fetch and its end: it sweeps the files, gets the same list from
\* upstream, notifies and saves what is new to it, loads the registration
\* ledger and detects the opening-soon list.
OtherStart ==
    /\ track = "race"
    /\ other.pc = "idle"
    /\ other.runs < MaxOverlaps
    /\ pc \in {"upcoming", "open", "spots"}
    /\ LET today == Today(now)
           kept == clean_old_competitions(prev_comps, today)
           swept == clean_old_registration_tracking(reg_file, kept, today)
           fetched == current_comps
       IN  /\ prev_comps' = snapshot_after_new(
                               kept, fetched,
                               detect_new_competitions(fetched, kept), TRUE)
           /\ reg_file' = swept
           /\ spots_file' = clean_old_spots_tracking(spots_file, kept, today)
           /\ other' = [pc |-> "upcoming", comps |-> fetched,
                        tracking |-> swept,
                        queue |-> detect_registration_opening_soon(fetched, swept,
                                                                   now),
                        runs |-> other.runs + 1]
    /\ idem' = [idem EXCEPT !.again = {}]
    /\ UNCHANGED <<now, pc, locals, runs, scope, track, args, result, okCount,
                   received, failed>>

\* main, lines 1210-1216 and 1226-1232, run by the second process: one
\* competition of its list is dispatched; on success the flag is set in its
\* ledger and the ledger is saved.
OtherDispatch ==
    /\ other.pc \in {"upcoming", "open"}
    /\ other.queue # <<>>
    /\ \E d \in BOOLEAN, t \in BOOLEAN :
         LET comp == Head(other.queue)
             ok == send_result(d, t)
             field == IF other.pc = "upcoming" THEN "notified_upcoming"
                      ELSE "notified_open"
             ledger == registration_after_send(other.tracking, comp.id, field, ok)
             saved == IF ok THEN save_registration_tracking(reg_file, ledger)
                      ELSE reg_file
         IN  /\ other' = [other EXCEPT !.tracking = ledger,
                                       !.queue = Tail(other.queue)]
             /\ reg_file' = saved
             /\ idem' = [idem EXCEPT
                           !.again = IF ok THEN @ \cup {<<other.pc, comp.id>>}
                                     ELSE @,
                           !.lost = @ \cup
                             {ev \in {"upcoming", "open"} \X Ids :
                                LET f == IF ev[1] = "upcoming"
                                         THEN "notified_upcoming"
                                         ELSE "notified_open"
                                IN  /\ Flag(reg_file, ev[2], f)
                                    /\ ~Flag(saved, ev[2], f)}]
    /\ UNCHANGED <<now, prev_comps, spots_file, pc, locals, runs, scope, track,
                   args, result, okCount, received, failed>>

\* main, line 1221, run by the second process.
OtherDetectJustOpened ==
    /\ other.pc = "upcoming"
    /\ other.queue = <<>>
    /\ other' = [other EXCEPT
                   !.pc = "open",
                   !.queue = detect_registration_just_opened(
                               other.comps, other.tracking, now)]
    /\ UNCHANGED <<now, stores, pc, locals, runs, scope, track, args, result,
                   history>>

\* main, lines 1238-1259, run by the second process: no fetched competition
\* declares a limit, the spots ledger is loaded and saved as it is.
OtherFinish ==
    /\ other.pc = "open"
    /\ other.queue = <<>>
    /\ other' = OtherIdle(other.runs)
    /\ UNCHANGED <<now, stores, pc, locals, runs, scope, track, args, result,
                   history>>

\* The process is killed between two steps of main: what is in memory is
\* lost, the files stay as they are.
Kill ==
    /\ pc \in {"fetch", "upcoming", "open", "spots"}
    /\ track = "kill"
    /\ pc' = "idle"
    /\ runs' = runs + 1
    /\ current_comps' = <<>>
    /\ tracking' = EmptyDict
    /\ spots_tracking' = EmptyDict
    /\ queue' = <<>>
    /\ looked_up' = EmptyDict
    /\ idem' = [IdemNone EXCEPT !.prevDelivered = idem.delivered,
                                !.killed = TRUE]
    /\ UNCHANGED <<now, stores, setup, okCount, received, failed>>

\* main, lines 1211-1216, 1227-1232, 1247-1252: the process is killed inside
\* a dispatch, after the send function returned True and before the ledger
\* is written.
DispatchKilled ==
    /\ pc \in {"upcoming", "open", "spots"}
    /\ track = "kill"
    /\ queue # <<>>
    /\ \E d \in BOOLEAN, t \in BOOLEAN : send_result(d, t)
    /\ LET ev == <<pc, Head(queue).id>>
       IN  idem' = [IdemNone EXCEPT
                      !.prevDelivered = idem.delivered \cup {ev},
                      !.inflight = {ev},
                      !.killed = TRUE]
    /\ pc' = "idle"
    /\ runs' = runs + 1
    /\ current_comps' = <<>>
    /\ tracking' = EmptyDict
    /\ spots_tracking' = EmptyDict
    /\ queue' = <<>>
    /\ looked_up' = EmptyDict
    /\ UNCHANGED <<now, stores, setup, okCount, received, failed>>

\* Complete, non-overlapping runs; the history counts successful dispatches.
Spec == Init /\ [][Next]_vars

\* Runs during which the clock can move; the history counts successful
\* dispatches.
InitClock == InitTracking("ok")
NextClock == Next \/ TickInRun
SpecClock == InitClock /\ [][NextClock]_vars

\* The same runs; the history records which channel got which event.
InitChannels == InitTracking("channels")
SpecChannels == InitChannels /\ [][Next]_vars

\* The same runs; the history compares each run with the one before it.
InitIdem == InitTracking("idem")
SpecIdem == InitIdem /\ [][Next]_vars

\* The same runs; the history keeps the events whose last dispatch failed.
InitRetry == InitTracking("retry")
SpecRetry == InitRetry /\ [][Next]_vars

\* The same runs; the history keeps the stores as they were before and after
\* the sweep of the run.
InitFrame == InitTracking("frame")
SpecFrame == InitFrame /\ [][Next]_vars

\* Runs that the scheduler can kill at any point; the history keeps the
\* events the run before delivered and the one it was delivering when killed.
InitKill == InitTracking("kill")
NextKill == Next \/ Kill \/ DispatchKilled
SpecKill == InitKill /\ [][NextKill]_vars

\* The same runs; the history keeps what the previous run fetched and which
\* new-competition notification it failed to deliver.
InitNew == InitTracking("new")
SpecNew == InitNew /\ [][Next]_vars

\* Runs over an upstream whose records can have a bad date field (scope
\* "dates"), beside the capacity scope; the history keeps whether a run
\* ended on an exception.
InitDates ==
    /\ now \in ClockInstants
    /\ prev_comps = <<>>
    /\ reg_file = EmptyDict
    /\ spots_file = EmptyDict
    /\ pc = "idle"
    /\ current_comps = <<>>
    /\ tracking = EmptyDict
    /\ spots_tracking = EmptyDict
    /\ queue = <<>>
    /\ looked_up = EmptyDict
    /\ runs = 0
    /\ scope \in {"dates", "capacity"}
    /\ track = "dates"
    /\ other = OtherIdle(0)
    /\ okCount = [ev \in Events |-> 0]
    /\ received = [ev \in Events |-> {}]
    /\ failed = {}
    /\ idem = IdemNone
    /\ args = <<>>
    /\ result = <<>>
NextDates ==
    \/ Next
    \/ SweepRaises
    \/ FetchRaises
    \/ DispatchRaises
    \/ DetectJustOpenedRaises
    \/ DetectSpotsRaises
SpecDates == InitDates /\ [][NextDates]_vars

\* Two processes run main() with nothing that excludes one from the other,
\* over an upstream of the registration scope and within one minute, 10
\* minutes before the registration opens or 30 minutes after (the clock of a
\* behaviour stays at its first instant); the history keeps what each of
\* them delivered and the flags a save of the second removed from the file.
RaceInstants == {RegOpenInstant - 10, RegOpenInstant + 30}
InitRace ==
    /\ InitTracking("race")
    /\ scope = "registration"
    /\ now \in RaceInstants
NextRace ==
    \/ Sweep
    \/ FetchEmpty
    \/ Fetch
    \/ DispatchUpcoming
    \/ DetectJustOpened
    \/ DispatchOpen
    \/ DetectSpots
    \/ FinishRun
    \/ OtherStart
    \/ OtherDispatch
    \/ OtherDetectJustOpened
    \/ OtherFinish
SpecRace == InitRace /\ [][NextRace]_vars

\* Complete runs over an upstream that moves one-day competitions (scope
\* "moved": no registration instant, no limit, so nothing is dispatched per
\* entity); the history counts in how many runs each id was reported as new
\* and keeps the ids that a fetch left out after they had appeared.
InitMoved ==
    /\ now \in ClockInstants
    /\ prev_comps = <<>>
    /\ reg_file = EmptyDict
    /\ spots_file = EmptyDict
    /\ pc = "idle"
    /\ current_comps = <<>>
    /\ tracking = EmptyDict
    /\ spots_tracking = EmptyDict
    /\ queue = <<>>
    /\ looked_up = EmptyDict
    /\ runs = 0
    /\ scope = "moved"
    /\ track = "moved"
    /\ other = OtherIdle(0)
    /\ okCount = [ev \in Events |-> 0]
    /\ received = [ev \in Events |-> {}]
    /\ failed = {}
    /\ idem = IdemNone
    /\ args = <<>>
    /\ result = <<>>
NextMoved ==
    \/ Tick
    \/ Sweep
    \/ FetchEmpty
    \/ Fetch
    \/ DetectJustOpened
    \/ DetectSpots
    \/ FinishRun
SpecMoved == InitMoved /\ [][NextMoved]_vars

\* Complete runs over an upstream whose competitions all declare a limit
\* that can change between two fetches (scope "limits": no registration
\* instant, so only capacity alerts are dispatched).
InitLimits ==
    /\ now \in ClockInstants
    /\ prev_comps = <<>>
    /\ reg_file = EmptyDict
    /\ spots_file = EmptyDict
    /\ pc = "idle"
    /\ current_comps = <<>>
    /\ tracking = EmptyDict
    /\ spots_tracking = EmptyDict
    /\ queue = <<>>
    /\ looked_up = EmptyDict
    /\ runs = 0
    /\ scope = "limits"
    /\ track = "ok"
    /\ other = OtherIdle(0)
    /\ okCount = [ev \in Events |-> 0]
    /\ received = [ev \in Events |-> {}]
    /\ failed = {}
    /\ idem = IdemNone
    /\ args = <<>>
    /\ result = <<>>
NextLimits ==
    \/ Tick
    \/ Sweep
    \/ FetchEmpty
    \/ Fetch
    \/ DetectJustOpened
    \/ DetectSpots
    \/ DispatchSpots
    \/ FinishRun
SpecLimits == InitLimits /\ [][NextLimits]_vars

\* The same runs; the history keeps the stores as they were before a run
\* whose fetch failed, until the next run with a non-empty fetch ends.
InitBase == InitTracking("base")
SpecBase == InitBase /\ [][Next]_vars

\* --------------------------------------------- the function specifications
\* The variables of a run, at rest while a function is applied on its own.
NoRun(p) ==
    /\ now \in {0}
    /\ prev_comps = <<>>
    /\ reg_file = EmptyDict
    /\ spots_file = EmptyDict
    /\ pc = p
    /\ current_comps = <<>>
    /\ tracking = EmptyDict
    /\ spots_tracking = EmptyDict
    /\ queue = <<>>
    /\ looked_up = EmptyDict
    /\ runs \in {0}
    /\ scope = "registration"
    /\ track = "none"
    /\ other = OtherIdle(0)
    /\ okCount = [ev \in Events |-> 0]
    /\ received = [ev \in Events |-> {}]
    /\ failed = {}
    /\ idem = IdemNone

\* All the lists of at most MaxLen elements of S.
ListsOf(S) == UNION {[1..n -> S] : n \in 0..MaxLen}

\* Competition records for the arguments of detect_new_competitions: two
\* ids, two start dates.
NewArgEntities ==
    {Entity(id, s, LastDay, None, None) : id \in Ids, s \in StartDays}

InitDetectNew ==
    /\ NoRun("call")
    /\ args \in [current : ListsOf(NewArgEntities),
                 previous : ListsOf(NewArgEntities)]
    /\ result = <<>>

\* detect_new_competitions(current, previous) is called and returns.
CallDetectNew ==
    /\ pc = "call"
    /\ result' = detect_new_competitions(args.current, args.previous)
    /\ pc' = "return"
    /\ UNCHANGED <<now, stores, locals, runs, scope, track, args, other, history>>

NextDetectNew == CallDetectNew
SpecDetectNew == InitDetectNew /\ [][NextDetectNew]_vars

\* Arguments of the two registration window functions: the registration
\* opens at RegOpenInstant or one minute later, is absent, or does not parse;
\* the call happens 61, 60 or 1 minute before RegOpenInstant, at it, or 60 or
\* 61 minutes after it.
WindowRegValues == {None, Malformed, RegOpenInstant, RegOpenInstant + 1}
WindowInstants ==
    {RegOpenInstant - 61, RegOpenInstant - 60, RegOpenInstant - 1,
     RegOpenInstant, RegOpenInstant + 60, RegOpenInstant + 61}
WindowEntities ==
    {Entity(id, s, LastDay, r, None) :
        id \in Ids, s \in StartDays, r \in WindowRegValues}
\* A ledger entry: no key for the id, or the two flags.
WindowLedgers ==
    UNION {[S -> [notified_upcoming : BOOLEAN, notified_open : BOOLEAN]] :
             S \in SUBSET Ids}

InitWindow ==
    /\ NoRun("call")
    /\ args \in [competitions : ListsOf(WindowEntities),
                 tracking : WindowLedgers,
                 at : WindowInstants]
    /\ result = <<>>

\* detect_registration_opening_soon(competitions, tracking) is called at
\* instant args.at and returns.
CallOpeningSoon ==
    /\ pc = "call"
    /\ LET raised == window_raises(args.competitions, args.tracking,
                                   "notified_upcoming")
       IN  result' = [soon |-> IF raised THEN <<>>
                               ELSE detect_registration_opening_soon(
                                      args.competitions, args.tracking, args.at),
                      soon_raised |-> raised]
    /\ pc' = "soon"
    /\ UNCHANGED <<now, stores, locals, runs, scope, track, args, other, history>>

\* detect_registration_just_opened(competitions, tracking) is called at the
\* same instant and returns.
CallJustOpened ==
    /\ pc = "soon"
    /\ LET raised == window_raises(args.competitions, args.tracking,
                                   "notified_open")
       IN  result' = [soon |-> result.soon,
                      soon_raised |-> result.soon_raised,
                      opened |-> IF raised THEN <<>>
                                 ELSE detect_registration_just_opened(
                                        args.competitions, args.tracking, args.at),
                      opened_raised |-> raised]
    /\ pc' = "return"
    /\ UNCHANGED <<now, stores, locals, runs, scope, track, args, other, history>>

NextWindow == CallOpeningSoon \/ CallJustOpened
SpecWindow == InitWindow /\ [][NextWindow]_vars

\* Arguments of the two window functions with bad records: the start date is
\* a date, unparsable, or missing; so is the registration-open instant; the
\* call happens 10 minutes before or after RegOpenInstant.
ToleranceEntities ==
    {Entity(id, s, LastDay, r, None) :
        id \in Ids, s \in {LastDay, Malformed, None},
        r \in {RegOpenInstant, Malformed, None}}
ToleranceLedgers ==
    {EmptyDict,
     [id \in {"A1"} |-> [notified_upcoming |-> TRUE, notified_open |-> TRUE]]}

InitTolerance ==
    /\ NoRun("call")
    /\ args \in [competitions : ListsOf(ToleranceEntities),
                 tracking : ToleranceLedgers,
                 at : {RegOpenInstant - 10, RegOpenInstant + 10}]
    /\ result = <<>>

SpecTolerance == InitTolerance /\ [][NextWindow]_vars

\* What a store file can hold when it is loaded: no file at all; text that
\* json.load rejects (empty, truncated); bytes that are no text, which open()
\* in text mode cannot decode; the JSON value null; the empty list; the empty
\* object; a store with entries.
FileContents == {"missing", "not_json", "not_text", "null", "[]", "{}", "data"}

\* initialize_data_file and the two initialize_*_tracking_file: the file
\* after the call. A missing file and a JSONDecodeError are answered by
\* writing the empty form; any other exception is logged and the file is left.
initialize_store(content, empty_form) ==
    IF content \in {"missing", "not_json"} THEN empty_form ELSE content

\* load_previous_competitions, load_registration_tracking, load_spots_tracking:
\* FileNotFoundError and JSONDecodeError are caught, the file is initialised
\* and the empty store returned; UnicodeDecodeError is not caught; any JSON
\* value is returned as it is.
load_store(content, empty_form) ==
    IF content \in {"missing", "not_json"}
    THEN [raised |-> FALSE, value |-> empty_form,
          file |-> initialize_store(content, empty_form)]
    ELSE IF content = "not_text"
    THEN [raised |-> TRUE, value |-> "", file |-> content]
    ELSE [raised |-> FALSE, value |-> content, file |-> content]

load_previous_competitions(content) == load_store(content, "[]")
load_registration_tracking(content) == load_store(content, "{}")
load_spots_tracking(content) == load_store(content, "{}")

InitLoad ==
    /\ NoRun("call")
    /\ args \in [prev : FileContents, reg : FileContents, spots : FileContents]
    /\ result = <<>>

\* load_previous_competitions() is called on the snapshot file.
CallLoadPrevious ==
    /\ pc = "call"
    /\ result' = [prev |-> load_previous_competitions(args.prev)]
    /\ pc' = "prev"
    /\ UNCHANGED <<now, stores, locals, runs, scope, track, args, other, history>>

\* load_registration_tracking() is called on the registration ledger file.
CallLoadRegistration ==
    /\ pc = "prev"
    /\ result' = [prev |-> result.prev,
                  reg |-> load_registration_tracking(args.reg)]
    /\ pc' = "reg"
    /\ UNCHANGED <<now, stores, locals, runs, scope, track, args, other, history>>

\* load_spots_tracking() is called on the spots ledger file.
CallLoadSpots ==
    /\ pc = "reg"
    /\ result' = [prev |-> result.prev, reg |-> result.reg,
                  spots |-> load_spots_tracking(args.spots)]
    /\ pc' = "return"
    /\ UNCHANGED <<now, stores, locals, runs, scope, track, args, other, history>>

NextLoad == CallLoadPrevious \/ CallLoadRegistration \/ CallLoadSpots
SpecLoad == InitLoad /\ [][NextLoad]_vars

\* Arguments of detect_limited_spots: the declared limit is absent, 0 or 100;
\* the live count of an id is 79, 80 or 100, or its lookup fails; the ledger
\* is empty or holds A1 as notified; the call happens on day 0 or day 1.
SpotsEntities ==
    {Entity(id, s, LastDay, None, l) :
        id \in Ids, s \in StartDays, l \in {None, 0, 100}}
SpotsLedgers ==
    {EmptyDict,
     [id \in {"A1"} |-> [notified |-> TRUE, last_count |-> 80, limit |-> 100]]}
SpotsCounts == [Ids -> {None, 79, 80, 100}]

InitSpots ==
    /\ NoRun("call")
    /\ args \in [competitions : ListsOf(SpotsEntities),
                 tracking : SpotsLedgers,
                 live : SpotsCounts,
                 today : {0, 1}]
    /\ result = <<>>

\* detect_limited_spots(competitions, tracking) is called on day args.today
\* and returns; `asked` holds the positions of the list whose live count was
\* looked up.
CallDetectLimitedSpots ==
    /\ pc = "call"
    /\ LET asked == {i \in DOMAIN args.competitions :
                       spots_lookup_made(args.competitions[i], args.tracking,
                                         args.today)}
           counts == Restrict(args.live,
                              {args.competitions[i].id : i \in asked})
       IN  result' =
             [asked |-> asked,
              raised |-> \E i \in DOMAIN args.competitions :
                           division_raises(args.competitions[i], args.tracking,
                                           counts, args.today),
              almost_full |-> detect_limited_spots(args.competitions,
                                                   args.tracking, counts,
                                                   args.today)]
    /\ pc' = "return"
    /\ UNCHANGED <<now, stores, locals, runs, scope, track, args, other, history>>

NextSpots == CallDetectLimitedSpots
SpecSpots == InitSpots /\ [][NextSpots]_vars

\* ------------------------------------------------------------- the claims
FieldOf(kind) ==
    CASE kind = "upcoming" -> "notified_upcoming"
      [] kind = "open" -> "notified_open"
      [] OTHER -> "notified"
\* The flag of event `ev` in the persisted ledger / in main's ledger.
FlagSet(ev) ==
    Flag(IF ev[1] = "spots" THEN spots_file ELSE reg_file, ev[2], FieldOf(ev[1]))
FlagInMemory(ev) ==
    Flag(IF ev[1] = "spots" THEN spots_tracking ELSE tracking, ev[2],
         FieldOf(ev[1]))

\* C1: over complete runs from empty stores, the registration-upcoming and
\* the registration-open dispatch each return success at most once per
\* entity id.
RegistrationAtMostOnce ==
    \A id \in Ids : /\ okCount[<<"upcoming", id>>] <= 1
                    /\ okCount[<<"open", id>>] <= 1

\* C2 as claimed: a ledger flag is never set while one of the two configured
\* channels has not received the event.
FlagOnlyAfterBothChannels ==
    \A ev \in Events : FlagSet(ev) => received[ev] = Channels

\* C2 as amended: a ledger flag is never set while no configured channel has
\* received the event (one channel is enough).
FlagOnlyAfterSomeChannel ==
    \A ev \in Events : FlagSet(ev) => received[ev] # {}

\* C2 witness: a flag is set and only Discord has received the event.
FlagWithOneChannel ==
    \E ev \in Events : FlagSet(ev) /\ received[ev] = {"discord"}

\* C3: once the capacity alert of an entity has been dispatched successfully,
\* no later run dispatches it successfully again.
CapacityAlertOneShot ==
    \A id \in Ids : okCount[<<"spots", id>>] <= 1

\* C4: a flag is true, in a persisted ledger or in main's ledger, only if a
\* dispatch of that notification for that entity returned success before.
FlagOnlyAfterSuccess ==
    \A ev \in Events : (FlagSet(ev) \/ FlagInMemory(ev)) => okCount[ev] >= 1

\* C4 witness: the upcoming batch is over; the send for A1 returned True and
\* its flag is persisted, the send for A2 returned False and A2 has no flag.
FlagAfterMixedBatch ==
    /\ pc = "upcoming" /\ queue = <<>>
    /\ Flag(reg_file, "A1", "notified_upcoming")
    /\ okCount[<<"upcoming", "A1">>] = 1
    /\ okCount[<<"upcoming", "A2">>] = 0
    /\ ~Flag(reg_file, "A2", "notified_upcoming")
    /\ \E i \in DOMAIN current_comps :
         /\ current_comps[i].id = "A2"
         /\ opening_soon_test(current_comps[i], tracking, now)

\* The window or threshold condition of an event, flags aside.
UpcomingDue(comp, t) ==
    /\ comp.start_date > Today(t)
    /\ comp.registration_open \notin {None, Malformed}
    /\ comp.registration_open - t > 0
    /\ comp.registration_open - t <= 60
OpenDue(comp, t) ==
    /\ comp.start_date > Today(t)
    /\ comp.registration_open \notin {None, Malformed}
    /\ t - comp.registration_open >= 0
    /\ t - comp.registration_open <= 60
SpotsDue(comp, t, counts) ==
    /\ comp.start_date > Today(t)
    /\ comp.competitor_limit \notin {None, 0}
    /\ comp.id \in DOMAIN counts
    /\ counts[comp.id] # None
    /\ 100 * counts[comp.id] >= 80 * comp.competitor_limit

\* An event whose latest dispatch returned False has no persisted flag.
FailedStaysUnset == \A ev \in failed : ~FlagSet(ev)

\* A detection step puts every due event whose latest dispatch returned False
\* back on the list to dispatch.
FailedRedetected ==
    /\ (pc = "fetch" /\ pc' = "upcoming") =>
         \A i \in DOMAIN current_comps' :
           (/\ <<"upcoming", current_comps'[i].id>> \in failed
            /\ UpcomingDue(current_comps'[i], now))
           => current_comps'[i] \in Range(queue')
    /\ (pc = "upcoming" /\ pc' = "open") =>
         \A i \in DOMAIN current_comps :
           (/\ <<"open", current_comps[i].id>> \in failed
            /\ OpenDue(current_comps[i], now))
           => current_comps[i] \in Range(queue')
    /\ (pc = "open" /\ pc' = "spots") =>
         \A i \in DOMAIN current_comps :
           (/\ <<"spots", current_comps[i].id>> \in failed
            /\ current_comps[i].start_date > Today(now)
            /\ current_comps[i].competitor_limit \notin {None, 0})
           => /\ current_comps[i].id \in DOMAIN looked_up'
              /\ SpotsDue(current_comps[i], now, looked_up')
                 => current_comps[i].id \in IdsOf(queue')

\* C5: a failed dispatch leaves the flag unset in the persisted ledger, and
\* the next run whose fetch still holds the entity within the window or over
\* the threshold detects the event again and dispatches it.
RetryAfterFailure == []FailedStaysUnset /\ [][FailedRedetected]_vars

\* C5 witness: an event whose dispatch returned False in an earlier run is
\* the next one to be dispatched.
FailedEventRetried ==
    /\ pc \in {"upcoming", "open", "spots"}
    /\ queue # <<>>
    /\ <<pc, Head(queue).id>> \in failed

\* C6: a complete run followed by a run with the same fetch, the same live
\* counts and the same clock: the second run dispatches nothing and leaves
\* the three stores as the first run left them (first run: no failed send).
SecondRunIdempotent ==
    (pc = "idle" /\ idem.same /\ idem.prevClean)
    => (~idem.sent /\ idem.start = stores)

\* C7: when a run with a non-empty fetch is about to end, the ids of the
\* persisted snapshot store are the ids of the fetched snapshot.
SnapshotIdsEqualFetchIds ==
    (pc = "spots" /\ queue = <<>>) => IdsOf(prev_comps) = IdsOf(current_comps)

\* C8: detect_new_competitions returns exactly the entities of current whose
\* id is the id of no entity of previous, in the order of current: nothing
\* when current = previous, all of current when previous is empty, and never
\* an entity whose id is in previous, whatever its other fields.
DetectNewIsIdDifference ==
    pc = "return" =>
      /\ \A e \in NewArgEntities :
           e \in Range(result) <=>
             /\ e \in Range(args.current)
             /\ \A q \in Range(args.previous) : q.id # e.id
      /\ {result[k].id : k \in DOMAIN result}
           = {args.current[k].id : k \in DOMAIN args.current}
             \ {args.previous[k].id : k \in DOMAIN args.previous}
      /\ Len(result) =
           Cardinality({k \in DOMAIN args.current :
                          \A j \in DOMAIN args.previous :
                            args.previous[j].id # args.current[k].id})
      /\ \A k \in DOMAIN result : \A j \in DOMAIN result :
           k < j => \E a \in DOMAIN args.current : \E b \in DOMAIN args.current :
                      a < b /\ args.current[a] = result[k]
                            /\ args.current[b] = result[j]
      /\ args.current = args.previous => result = <<>>
      /\ args.previous = <<>> => result = args.current

\* C8 witness: current holds an entity whose id is in previous with another
\* start date, and an entity with a new id; only the second is returned.
DetectNewChangedFields ==
    /\ pc = "return"
    /\ args.previous = <<Entity("A1", 1, LastDay, None, None)>>
    /\ args.current = <<Entity("A1", 2, LastDay, None, None),
                        Entity("A2", 1, LastDay, None, None)>>
    /\ result = <<Entity("A2", 1, LastDay, None, None)>>

\* C9: detect_registration_opening_soon returns an entity iff its
\* notified_upcoming flag is false or absent, its start date is after today,
\* it has a registration-open instant and that instant is more than 0 and at
\* most 60 minutes ahead.
OpeningSoonIsWindow ==
    pc \in {"soon", "return"} =>
      /\ \A e \in WindowEntities :
           e \in Range(result.soon) <=>
             /\ e \in Range(args.competitions)
             /\ ~(/\ e.id \in DOMAIN args.tracking
                  /\ args.tracking[e.id].notified_upcoming)
             /\ e.start_date > Today(args.at)
             /\ e.registration_open \notin {None, Malformed}
             /\ e.registration_open - args.at > 0
             /\ e.registration_open - args.at <= 60
      /\ Len(result.soon) =
           Cardinality({k \in DOMAIN args.competitions :
                          args.competitions[k] \in Range(result.soon)})

\* C9 witness: at one instant an entity whose registration opens in exactly
\* 60 minutes is returned and one whose registration opens in 61 is not.
OpeningSoonBoundary ==
    /\ pc = "soon"
    /\ args.at = RegOpenInstant - 60
    /\ Len(args.competitions) = 2
    /\ args.competitions[1].registration_open = RegOpenInstant
    /\ args.competitions[2].registration_open = RegOpenInstant + 1
    /\ result.soon = <<args.competitions[1]>>

\* C10: detect_registration_just_opened returns an entity iff its
\* notified_open flag is false or absent, its start date is after today, it
\* has a registration-open instant and that instant is at least 0 and at most
\* 60 minutes back; no entity is returned by both window functions at one
\* instant, and registration_open = now is returned by just-opened only.
JustOpenedIsWindow ==
    pc = "return" =>
      /\ \A e \in WindowEntities :
           e \in Range(result.opened) <=>
             /\ e \in Range(args.competitions)
             /\ ~(/\ e.id \in DOMAIN args.tracking
                  /\ args.tracking[e.id].notified_open)
             /\ e.start_date > Today(args.at)
             /\ e.registration_open \notin {None, Malformed}
             /\ args.at - e.registration_open >= 0
             /\ args.at - e.registration_open <= 60
      /\ Len(result.opened) =
           Cardinality({k \in DOMAIN args.competitions :
                          args.competitions[k] \in Range(result.opened)})
      /\ Range(result.opened) \cap Range(result.soon) = {}
      /\ \A e \in Range(args.competitions) :
           e.registration_open = args.at => e \notin Range(result.soon)

\* C10 witness: an entity whose registration opens at this very instant is
\* returned by just-opened and not by opening-soon, while the other entity of
\* the list, one minute from opening, is returned by opening-soon only.
JustOpenedAtTheInstant ==
    /\ pc = "return"
    /\ args.at = RegOpenInstant
    /\ Len(args.competitions) = 2
    /\ args.competitions[1].registration_open = RegOpenInstant
    /\ args.competitions[2].registration_open = RegOpenInstant + 1
    /\ result.opened = <<args.competitions[1]>>
    /\ result.soon = <<args.competitions[2]>>

\* C11: a malformed or missing start date or registration-open instant on one
\* entity only skips that entity: both window functions return normally, and
\* each returns the entities it would return without the bad records.
BadRecordOnlySkipped ==
    pc = "return" =>
      /\ ~result.soon_raised
      /\ ~result.opened_raised
      /\ result.soon =
           SelectSeq(args.competitions,
                     LAMBDA c : /\ ~Flag(args.tracking, c.id, "notified_upcoming")
                                /\ UpcomingDue(c, args.at))
      /\ result.opened =
           SelectSeq(args.competitions,
                     LAMBDA c : /\ ~Flag(args.tracking, c.id, "notified_open")
                                /\ OpenDue(c, args.at))

\* C12 as claimed: at the end of a run whose fetch failed or was empty the
\* three stores equal their content at the start of the run.
EmptyFetchKeepsStartStores ==
    (pc = "idle" /\ idem.emptied) => stores = idem.start

\* C12 as amended: at the end of a run whose fetch failed or was empty the
\* three stores equal their content right after the sweep of that run.
EmptyFetchKeepsSweptStores ==
    (pc = "idle" /\ idem.emptied) => stores = idem.swept

\* C12 witness: a run with an empty fetch has ended; its sweep had changed a
\* store, and nothing changed after the sweep.
EmptyFetchAfterSweepingRun ==
    /\ pc = "idle"
    /\ idem.emptied
    /\ idem.swept # idem.start
    /\ stores = idem.swept

\* C13: after the sweep the snapshot store holds exactly the previously stored
\* entities whose end date is today or later, in their order, and no ledger
\* holds an entry of an entity the sweep removed from the snapshot store.
SweepRetention ==
    (track = "frame" /\ pc = "fetch") =>
      LET before == idem.start[1]
          today == Today(now)
          kept == {k \in DOMAIN before : before[k].end_date >= today}
      IN  /\ Len(prev_comps) = Cardinality(kept)
          /\ \A c \in Range(before) :
               c \in Range(prev_comps) <=> c.end_date >= today
          /\ \A j \in DOMAIN prev_comps : \A k \in DOMAIN prev_comps :
               j < k => \E a \in kept : \E b \in kept :
                          a < b /\ before[a] = prev_comps[j]
                                /\ before[b] = prev_comps[k]
          /\ \A c \in Range(before) :
               c.end_date < today =>
                 /\ c.id \notin DOMAIN reg_file
                 /\ c.id \notin DOMAIN spots_file

\* C13 witness: the sweep has removed an entity that ended yesterday or before
\* and the ledger entry that entity had.
SweepRemovedEndedEntity ==
    /\ track = "frame"
    /\ pc = "fetch"
    /\ \E c \in Range(idem.start[1]) :
         /\ c.end_date < Today(now)
         /\ c.id \in DOMAIN idem.start[2] \cup DOMAIN idem.start[3]
         /\ c \notin Range(prev_comps)
         /\ c.id \notin DOMAIN reg_file \cup DOMAIN spots_file

\* C14: a run that reports new entities overwrites the snapshot store with its
\* fetch whatever the new-entity dispatch achieved, and a run with the same
\* fetch as the run before reports none of the entities whose new-entity
\* dispatch failed on every channel in that run.
NewSavedDespiteFailure ==
    (track = "new" /\ pc \in {"upcoming", "open", "spots"}) =>
      /\ idem.reported # {} => prev_comps = current_comps
      /\ idem.same => idem.reported \cap idem.prevNewFailed = {}

\* C14 witness: the run before failed to deliver the new-entity notification
\* on both channels; this run fetched the same list and reports nothing new.
NewFailureNotRetried ==
    /\ track = "new"
    /\ pc = "upcoming"
    /\ idem.same
    /\ idem.prevNewFailed # {}
    /\ idem.reported = {}
    /\ idem.prevNewFailed \subseteq IdsOf(prev_comps)

\* C17: the sweep never removes the ledger entry of an entity that the fetch
\* of the same run holds with a start date after today.
SweepKeepsFetchedUpcoming ==
    (track = "frame" /\ pc \in {"upcoming", "open", "spots"}) =>
      \A c \in Range(current_comps) :
        c.start_date > Today(now) =>
          /\ c.id \in DOMAIN idem.start[2] => c.id \in DOMAIN idem.swept[2]
          /\ c.id \in DOMAIN idem.start[3] => c.id \in DOMAIN idem.swept[3]

\* C18: after the sweep every key of the two ledgers is the id of an entity of
\* the persisted snapshot store that starts after today, and every entry the
\* ledgers held for such an entity is still there, unchanged.
LedgerKeysAreStoredUpcoming ==
    (track = "frame" /\ pc = "fetch") =>
      LET upcoming == {c.id : c \in {x \in Range(prev_comps) :
                                        x.start_date > Today(now)}}
      IN  /\ DOMAIN reg_file = DOMAIN idem.start[2] \cap upcoming
          /\ DOMAIN spots_file = DOMAIN idem.start[3] \cap upcoming
          /\ \A id \in DOMAIN reg_file : reg_file[id] = idem.start[2][id]
          /\ \A id \in DOMAIN spots_file : spots_file[id] = idem.start[3][id]

\* C18 witness: the sweep has removed the ledger entry of an entity that is in
\* the snapshot store and starts today.
SweepRemovedStartedEntry ==
    /\ track = "frame"
    /\ pc = "fetch"
    /\ \E c \in Range(prev_comps) :
         /\ c.start_date = Today(now)
         /\ c.id \in DOMAIN idem.start[2] \cup DOMAIN idem.start[3]
         /\ c.id \notin DOMAIN reg_file \cup DOMAIN spots_file

\* C19 as claimed: only the save step changes the snapshot store, and only to
\* a list with another id set.
SnapshotWrittenOnlyBySave ==
    [][prev_comps' # prev_comps =>
         /\ pc = "fetch"
         /\ IdsOf(prev_comps') # IdsOf(prev_comps)]_vars

\* C19 as amended: the snapshot store is changed only by the sweep, which
\* drops the entities that ended before today, and by the save step, which
\* writes the fetch and only when its id set differs from the persisted one.
SnapshotWrittenBySweepOrSave ==
    [][prev_comps' # prev_comps =>
         \/ /\ pc = "idle"
            /\ Range(prev_comps') =
                 {c \in Range(prev_comps) : c.end_date >= Today(now)}
         \/ /\ pc = "fetch"
            /\ IdsOf(prev_comps') # IdsOf(prev_comps)
            /\ prev_comps' = current_comps']_vars

\* C19 witness: the fetch of this run holds the ids of the snapshot store with
\* another start date, and the snapshot store was not rewritten.
SnapshotNotRewritten ==
    /\ track = "frame"
    /\ pc = "upcoming"
    /\ IdsOf(current_comps) = IdsOf(prev_comps)
    /\ current_comps # prev_comps
    /\ prev_comps = idem.swept[1]

\* The entry of `id` in ledger d: <<entry>>, or <<>> when there is none.
EntryOf(d, id) == IF id \in DOMAIN d THEN <<d[id]>> ELSE <<>>

\* The ids whose live-count lookup failed / succeeded in this run.
LookupFailed == {id \in DOMAIN looked_up : looked_up[id] = None}
LookupDone == {id \in DOMAIN looked_up : looked_up[id] # None}

\* A step of the capacity check treats the entities whose lookup failed as
\* skipped and the others as evaluated.
LookupFailureSkipsStep ==
    /\ (pc = "open" /\ pc' = "spots") =>
         /\ \A id \in LookupFailed' :
              /\ EntryOf(spots_tracking', id) = EntryOf(spots_file, id)
              /\ id \notin IdsOf(queue')
         /\ \A c \in Range(current_comps) :
              c.id \in LookupDone' =>
                /\ spots_tracking'[c.id].last_count = looked_up'[c.id]
                /\ spots_tracking'[c.id].limit = c.competitor_limit
                /\ 100 * looked_up'[c.id] >= 80 * c.competitor_limit
                     <=> c.id \in IdsOf(queue')
    /\ (pc = "spots" /\ pc' = "spots") =>
         \A id \in LookupFailed :
           /\ Head(queue).id # id
           /\ EntryOf(spots_tracking', id) = EntryOf(spots_tracking, id)
           /\ EntryOf(spots_file', id) = EntryOf(spots_tracking, id)
    /\ (pc = "spots" /\ pc' = "idle") =>
         \A id \in LookupFailed :
           EntryOf(spots_file', id) = EntryOf(spots_tracking, id)

\* C20: an entity whose live-count lookup returns None is skipped for the
\* run: its spots-ledger entry is neither created nor modified, it is not in
\* the result, no alert is dispatched for it, and the other entities are
\* still evaluated.
LookupFailureSkips == [][LookupFailureSkipsStep]_vars

\* C20 witness: the lookup failed for A1, which has no ledger entry, and
\* succeeded for A2, which is over the threshold and listed for an alert.
LookupFailedForOne ==
    /\ pc = "spots"
    /\ "A1" \in LookupFailed
    /\ "A1" \notin DOMAIN spots_tracking
    /\ "A2" \in LookupDone
    /\ IdsOf(queue) = {"A2"}
    /\ spots_tracking["A2"].last_count = looked_up["A2"]

\* Contents that are no store: no file, or malformed content.
NoStore == {"missing", "not_json", "not_text", "null"}

\* C15: loading a store file that is missing or malformed returns the empty
\* store ([] for the snapshot, {} for a ledger) without raising and leaves
\* the file reinitialised to that empty form.
LoadSelfHeals ==
    pc = "return" =>
      /\ args.prev \in NoStore =>
           result.prev = [raised |-> FALSE, value |-> "[]", file |-> "[]"]
      /\ args.reg \in NoStore =>
           result.reg = [raised |-> FALSE, value |-> "{}", file |-> "{}"]
      /\ args.spots \in NoStore =>
           result.spots = [raised |-> FALSE, value |-> "{}", file |-> "{}"]

\* C16: every flag is in its file before the next entity of the batch is
\* dispatched, so when a run is killed every event it delivered, except at
\* most the one in flight, is persisted, and the run after a killed run
\* dispatches again at most that one already-delivered event.
FlushedExceptInFlight ==
    track = "kill" =>
      /\ \A ev \in idem.delivered : FlagSet(ev)
      /\ pc = "idle" => \A ev \in idem.prevDelivered \ idem.inflight : FlagSet(ev)
      /\ Cardinality(idem.inflight) <= 1
      /\ idem.killed => idem.again \subseteq idem.inflight

\* A step of the capacity check of a run: the entities with a limit, a future
\* start and no notified flag are looked up, only those at or over the
\* threshold are listed, and the run ends with the looked-up count and the
\* declared limit of every entity whose lookup succeeded in the file.
SpotsRefreshedStep ==
    /\ (pc = "open" /\ pc' = "spots") =>
         /\ \A c \in Range(current_comps) :
              (/\ c.competitor_limit \notin {None, 0}
               /\ c.start_date > Today(now)
               /\ ~Flag(spots_file, c.id, "notified"))
              => c.id \in DOMAIN looked_up'
         /\ \A c \in Range(queue') :
              100 * looked_up'[c.id] >= 80 * c.competitor_limit
    /\ (pc = "spots" /\ pc' = "idle") =>
         \A c \in Range(current_comps) :
           c.id \in LookupDone =>
             /\ c.id \in DOMAIN spots_file'
             /\ spots_file'[c.id].last_count = looked_up[c.id]
             /\ spots_file'[c.id].limit = c.competitor_limit

\* C21: at the end of a complete run with a non-empty fetch the persisted
\* spots ledger holds, for every capacity-limited, not-yet-notified entity
\* with a future start whose lookup succeeded, last_count = the live count
\* and limit = the declared limit, whether or not the threshold is crossed
\* or the alert got through; only entities at the threshold are detected.
SpotsRefreshedEveryRun == [][SpotsRefreshedStep]_vars

\* C21 witness: a run has ended; A1 was looked up below the threshold and A2
\* at the threshold with a failed alert, and the file holds both counts.
SpotsRefreshedWithoutAlert ==
    /\ pc = "idle"
    /\ DOMAIN spots_file = {"A1", "A2"}
    /\ spots_file["A1"] = [notified |-> FALSE, last_count |-> 3, limit |-> 5]
    /\ spots_file["A2"] = [notified |-> FALSE, last_count |-> 4, limit |-> 5]
    /\ okCount[<<"spots", "A2">>] = 0

\* C22: an evaluated entity is in the result iff 100 * live_count >= 80 *
\* limit, the threshold included; an entity whose limit is absent or 0 is
\* never looked up, never divided by and never in the result.
ThresholdInclusive ==
    pc = "return" =>
      /\ ~result.raised
      /\ \A i \in DOMAIN args.competitions :
           LET c == args.competitions[i]
           IN  /\ c.competitor_limit \in {None, 0} =>
                    /\ i \notin result.asked
                    /\ \A r \in Range(result.almost_full) :
                         ~(r.id = c.id /\ r.start_date = c.start_date
                             /\ r.competitor_limit = c.competitor_limit)
               /\ (i \in result.asked /\ args.live[c.id] # None) =>
                    ((100 * args.live[c.id] >= 80 * c.competitor_limit)
                     <=> \E r \in Range(result.almost_full) :
                           /\ r.id = c.id /\ r.start_date = c.start_date
                           /\ r.competitor_limit = c.competitor_limit
                           /\ r.current_count = args.live[c.id])

\* C22 witness: 80 of 100 is in the result, 79 of 100 is looked up and is
\* not.
EightyOfHundredFires ==
    /\ pc = "return"
    /\ Len(args.competitions) = 2
    /\ args.competitions[1].id = "A1" /\ args.competitions[2].id = "A2"
    /\ args.live["A1"] = 80 /\ args.live["A2"] = 79
    /\ result.asked = {1, 2}
    /\ Len(result.almost_full) = 1
    /\ result.almost_full[1].id = "A1"
    /\ result.almost_full[1].competitor_limit = 100

\* The two registration flags of `id` in ledger d, false when it has no entry.
FlagsOf(d, id) ==
    IF id \in DOMAIN d THEN d[id]
    ELSE [notified_upcoming |-> FALSE, notified_open |-> FALSE]

\* A step of a run and the registration ledger: a dispatch that succeeded
\* sets the one flag of its kind for its entity, in memory and in the file,
\* and changes nothing else; a dispatch that failed changes nothing; no step
\* turns a true flag of an entry false.
OneFlagPerSuccessStep ==
    /\ (pc \in {"upcoming", "open"} /\ pc' = pc) =>
         LET id == Head(queue).id
             field == FieldOf(pc)
             other_field == IF pc = "upcoming" THEN "notified_open"
                      ELSE "notified_upcoming"
         IN  /\ tracking = reg_file
             /\ tracking' = reg_file'
             /\ <<pc, id>> \in failed' => reg_file' = reg_file
             /\ <<pc, id>> \notin failed' =>
                  /\ DOMAIN reg_file' = DOMAIN reg_file \cup {id}
                  /\ reg_file'[id][field]
                  /\ reg_file'[id][other_field] = FlagsOf(reg_file, id)[other_field]
                  /\ \A k \in DOMAIN reg_file \ {id} :
                       reg_file'[k] = reg_file[k]
    /\ \A k \in DOMAIN reg_file \cap DOMAIN reg_file' :
         /\ reg_file[k].notified_upcoming => reg_file'[k].notified_upcoming
         /\ reg_file[k].notified_open => reg_file'[k].notified_open
    /\ \A k \in DOMAIN tracking \cap DOMAIN tracking' :
         /\ tracking[k].notified_upcoming => tracking'[k].notified_upcoming
         /\ tracking[k].notified_open => tracking'[k].notified_open

\* C23: each successful registration notification changes the registration
\* ledger in exactly one place, the flag of that kind of that entity, which
\* becomes true (the entry is created with both flags false when absent); the
\* other flag and the other entries are unchanged, and no step of a run sets
\* a true flag of an entry back to false.
OneFlagPerSuccess == [][OneFlagPerSuccessStep]_vars

\* C23 witness: the open notifications of A1, whose upcoming flag was set by
\* an earlier run, and of A2, which had no entry, both succeeded.
OpenFlagBesideUpcoming ==
    /\ track = "retry"
    /\ pc = "open"
    /\ queue = <<>>
    /\ failed = {}
    /\ DOMAIN reg_file = {"A1", "A2"}
    /\ reg_file["A1"] = [notified_upcoming |-> TRUE, notified_open |-> TRUE]
    /\ reg_file["A2"] = [notified_upcoming |-> FALSE, notified_open |-> TRUE]

\* C24: a run whose fetch failed or was empty leaves the comparison base: an
\* entity that was in the snapshot store before that run and whose stored end
\* date is today or later is not reported as new by the next run whose fetch
\* is not empty and holds it.
FailedFetchKeepsBase ==
    (track = "base" /\ idem.emptied /\ pc \in {"upcoming", "open", "spots"}) =>
      \A c \in Range(idem.start[1]) :
        (c.end_date >= Today(now) /\ c.id \in IdsOf(current_comps))
        => c.id \notin idem.reported

\* C24 witness: after a run with a failed fetch, this run fetched A1, which
\* was stored before the failed run, and A2, which was not; only A2 is new.
OnlyUnknownIsNewAfterFailure ==
    /\ track = "base"
    /\ idem.emptied
    /\ pc = "upcoming"
    /\ IdsOf(idem.start[1]) = {"A1"}
    /\ IdsOf(current_comps) = {"A1", "A2"}
    /\ idem.reported = {"A2"}

\* C25: a record with a malformed or missing date field, stored or fetched,
\* is only skipped: no sweep, detection or check of any run raises, and every
\* run reaches its normal end.
BadDateOnlySkipped ==
    track = "dates" => ~idem.raised

\* A run that has a competition to dispatch can take the step whatever the
\* other process is doing.
NotExcluded ==
    track = "race" =>
      /\ (other.pc \in {"upcoming", "open"} /\ other.queue # <<>>)
           => ENABLED OtherDispatch
      /\ (pc = "upcoming" /\ queue # <<>>) => ENABLED DispatchUpcoming
      /\ (pc = "open" /\ queue # <<>>) => ENABLED DispatchOpen
      /\ (pc \in {"upcoming", "open", "spots"} /\ other.pc = "idle"
            /\ other.runs < MaxOverlaps) => ENABLED OtherStart

\* A dispatch step of either process leaves the registration file alone or
\* replaces it by the in-memory ledger of that process, which holds no flag
\* the other process persisted after that ledger was loaded.
WholeFileWriteStep ==
    /\ (pc \in {"upcoming", "open"} /\ pc' = pc /\ queue' # queue) =>
         \/ reg_file' = reg_file /\ tracking' = tracking
         \/ reg_file' = tracking' /\ tracking' # tracking
    /\ (other.pc \in {"upcoming", "open"} /\ other'.pc = other.pc
          /\ other'.queue # other.queue) =>
         \/ reg_file' = reg_file /\ other'.tracking = other.tracking
         \/ reg_file' = other'.tracking /\ other'.tracking # other.tracking

\* C26: two overlapping runs are not excluded from each other and race on
\* the flat-file stores: each takes its load, dispatch and whole-file-write
\* steps whatever the other is doing, so both can dispatch the same
\* transition of the same entity successfully, and a flag persisted by one
\* can be overwritten by the stale in-memory ledger of the other.
OverlappingRunsRace == []NotExcluded /\ [][WholeFileWriteStep]_vars

\* C26 witness: both processes are inside a run; both have delivered the same
\* event, and a save of the second has removed from the file a flag that
\* the first had delivered and persisted.
SameEventTwiceAndFlagLost ==
    /\ track = "race"
    /\ pc # "idle"
    /\ other.pc # "idle"
    /\ idem.delivered \cap idem.again # {}
    /\ idem.lost \cap idem.delivered # {}
    /\ \E ev \in idem.lost : FlagInMemory(ev) /\ ~FlagSet(ev)

\* C27: over complete runs, an entity that every non-empty fetch holds from
\* its first appearance on is reported as new by at most one run, even when
\* upstream changes its dates between runs.
NewReportedAtMostOnce ==
    track = "moved" =>
      \A id \in Ids \ idem.dropped : idem.newTimes[id] <= 1

\* The save step of a run: the store becomes the fetch when a fetched id is
\* missing from it, and stays as it is otherwise.
SaveWhenIdMissingStep ==
    (pc = "fetch" /\ pc' = "upcoming") =>
      prev_comps' = IF IdsOf(current_comps') \subseteq IdsOf(prev_comps)
                    THEN prev_comps ELSE current_comps'

\* From the save step to the end of a run with a non-empty fetch, every
\* fetched id is an id of the persisted snapshot store.
FetchIdsStored ==
    pc \in {"upcoming", "open", "spots"} =>
      IdsOf(current_comps) \subseteq IdsOf(prev_comps)

\* C28: at the end of every complete run with a non-empty fetch the ids of
\* the fetch are a subset of the ids of the persisted snapshot store: the
\* store is overwritten with the fetch when some fetched id is missing from
\* it and is left as it is otherwise.
FetchIdsSubsetOfStore == []FetchIdsStored /\ [][SaveWhenIdMissingStep]_vars

\* C28 witness: a run is about to end; it fetched A1 only, and the store
\* still holds A1 and A2 as an earlier run saved them.
StoreKeepsUnfetchedId ==
    /\ track = "ok"
    /\ pc = "spots"
    /\ queue = <<>>
    /\ IdsOf(current_comps) = {"A1"}
    /\ IdsOf(prev_comps) = {"A1", "A2"}

\* A step that dispatches the registration-upcoming notification of an entity
\* successfully: no registration-open notification of that entity has been
\* dispatched successfully before.
UpcomingNotAfterOpenStep ==
    (pc = "upcoming" /\ pc' = "upcoming" /\ tracking' # tracking) =>
      okCount[<<"open", Head(queue).id>>] = 0

\* C29: with a registration-open instant that does not change and a clock
\* that does not go back, a successful registration-upcoming dispatch never
\* happens after a successful registration-open dispatch for the same
\* entity, in the same run or in a later one.
UpcomingNeverAfterOpen == [][UpcomingNotAfterOpenStep]_vars

\* C29 witness: in one run the clock passed the registration-open instant
\* between the two detections: the upcoming notification of A1 failed, its
\* open notification was delivered; the next run has fetched A1, whose
\* upcoming flag is unset, and its opening-soon list is empty.
NoUpcomingOnceOpen ==
    /\ track = "ok"
    /\ pc = "upcoming"
    /\ queue = <<>>
    /\ runs = 1
    /\ okCount[<<"open", "A1">>] = 1
    /\ okCount[<<"upcoming", "A1">>] = 0
    /\ okCount[<<"upcoming", "A2">>] = 1
    /\ okCount[<<"open", "A2">>] = 1
    /\ ~Flag(tracking, "A1", "notified_upcoming")
    /\ \E i \in DOMAIN current_comps :
         /\ current_comps[i].id = "A1"
         /\ current_comps[i].registration_open = RegOpenInstant
         /\ current_comps[i].start_date > Today(now)

\* Once the fetch of a run has come back empty the run is over: main holds
\* no list to dispatch and has looked no live count up.
EmptyFetchRunOver ==
    (track = "frame" /\ idem.emptied) =>
      /\ pc = "idle"
      /\ current_comps = <<>>
      /\ queue = <<>>
      /\ looked_up = EmptyDict

\* The step on which the fetch comes back empty ends the run and writes no
\* store.
EmptyFetchReturnsStep ==
    (track = "frame" /\ pc = "fetch" /\ idem'.emptied) =>
      (pc' = "idle" /\ UNCHANGED stores)

\* C30: in a run whose fetch is empty or failed main returns right after the
\* sweep: nothing is dispatched and no live count is looked up in that run,
\* even for entities of the persisted snapshot store that are inside a
\* notification window.
EmptyFetchDispatchesNothing ==
    []EmptyFetchRunOver /\ [][EmptyFetchReturnsStep]_vars

\* C30 witness: a run has ended on an empty fetch while the store holds an
\* entity whose registration opens within the hour and whose upcoming flag
\* is unset.
EmptyFetchWithDueEntity ==
    /\ track = "frame"
    /\ pc = "idle"
    /\ idem.emptied
    /\ \E c \in Range(prev_comps) :
         /\ UpcomingDue(c, now)
         /\ ~Flag(reg_file, c.id, "notified_upcoming")

\* The entities whose entry of the persisted spots ledger is flagged.
SpotsFlagged == {id \in DOMAIN spots_file : Flag(spots_file, id, "notified")}

\* The lookups of a run leave out every entity flagged in the file, and no
\* step changes the persisted entry of a flagged entity except by removing it.
FlaggedEntryFrozenStep ==
    /\ (pc = "open" /\ pc' = "spots") => DOMAIN looked_up' \cap SpotsFlagged = {}
    /\ \A id \in SpotsFlagged \cap DOMAIN spots_file' :
         spots_file'[id] = spots_file[id]

\* The step that persists the flag persists the count this run looked up and
\* the limit this run fetched.
FlaggedWithAlertValuesStep ==
    \A i \in DOMAIN current_comps :
      LET c == current_comps[i]
      IN  (/\ ~Flag(spots_file, c.id, "notified")
           /\ Flag(spots_file', c.id, "notified"))
          => /\ c.id \in DOMAIN looked_up
             /\ spots_file'[c.id].last_count = looked_up[c.id]
             /\ spots_file'[c.id].limit = c.competitor_limit

\* C31: once an entity's spots-ledger notified flag is true no later run
\* looks its live count up, and its persisted last_count and limit keep the
\* values of the run that fired the alert until the entry is pruned.
FlaggedEntryKeepsAlertValues ==
    [][FlaggedEntryFrozenStep /\ FlaggedWithAlertValuesStep]_vars

\* C31 witness: a later run has made its lookups while fetching a flagged
\* entity that has not started and whose fetched limit is no longer the
\* persisted one; the entity was not looked up.
FlaggedEntitySkippedLater ==
    /\ track = "ok"
    /\ pc = "spots"
    /\ \E i \in DOMAIN current_comps :
         LET c == current_comps[i]
         IN  /\ c.id \in SpotsFlagged
             /\ ~(c.start_date <= Today(now))
             /\ ~Falsy(c.competitor_limit)
             /\ c.competitor_limit # spots_file[c.id].limit
             /\ c.id \notin DOMAIN looked_up
             /\ okCount[<<"spots", c.id>>] = 1

====
